---------------------------- MODULE Spec2Model ----------------------------
(***************************************************************************)
(* A model of CleanDataFunction.py: the character rules, clean_text,       *)
(* detect_unclenable_chars, process_dataframe and the HTTP handler         *)
(* CleanDataFunction.                                                      *)
(*                                                                         *)
(* A Python str is a sequence of Unicode code points (naturals).  A cell   *)
(* value, and an index label, is a record [kind, s, n]: a str (kind "str", *)
(* its code points in s), a missing value NaN (kind "nan"), an int64 (kind *)
(* "int", its value in n) or a whole float64 (kind "float", its value in   *)
(* n).  String columns have dtype object, as in pandas before 3.0.         *)
(*                                                                         *)
(* A DataFrame is a record: its row labels (index), its column names in    *)
(* order (columns), each column's dtype (dtypes) and its rows (data), each *)
(* a function from column name to value.  Its field pos records, for each  *)
(* row, which row of the parsed table it is: the row's identity, which the *)
(* label is not when labels repeat.                                        *)
(*                                                                         *)
(* Not modelled: the request's fileName, folderPath and targetTable, which *)
(* the response echoes, its processedAt timestamp, and the base64 coding   *)
(* of the clean CSV.                                                       *)
(***************************************************************************)
EXTENDS Integers, Sequences, FiniteSets, TLC

VARIABLES
    pc,                 \* the position of the handler, or of the cell-level run
    text,               \* the argument of clean_text / detect_unclenable_chars
    cleaned,            \* what clean_text returned
    issues,             \* what detect_unclenable_chars returned
    req,                \* the HTTP request
    df,                 \* the table pd.read_csv returned
    clean_df,           \* process_dataframe's four results
    dirty_df,
    dirty_row_details,
    column_analysis,
    response            \* the HTTP response

vars == <<pc, text, cleaned, issues, req, df, clean_df, dirty_df,
          dirty_row_details, column_analysis, response>>

-----------------------------------------------------------------------------
(* Bounds of the model. *)

\* The longest text the cell-level functions are applied to.
MaxLen == 4

\* The most data rows of a CSV.
MaxRows == 2

-----------------------------------------------------------------------------
(* Values. *)

Str(s) == [kind |-> "str", s |-> s, n |-> 0]
NaN    == [kind |-> "nan", s |-> <<>>, n |-> 0]
IntVal(n) == [kind |-> "int", s |-> <<>>, n |-> n]
FloatVal(n) == [kind |-> "float", s |-> <<>>, n |-> n]

\* A variable that holds nothing yet.
Unset == [kind |-> "unset"]

\* Every sequence over S of length at most n.
SeqsUpTo(S, n) == UNION {[1..k -> S] : k \in 0..n}

Min2(a, b) == IF a <= b THEN a ELSE b

\* Python's s[:n].
Take(s, n) == SubSeq(s, 1, Min2(Len(s), n))

-----------------------------------------------------------------------------
(* CHARACTERS THAT CAN BE CLEANED *)

\* The second key the dict literal really has: lines 20-21 open and close a
\* triple-quoted string, so the key is the text between the two ''' tokens,
\*   : "'",          # Smart apostrophe left\n
\* and its value is "'".
TripleQuotedKey ==
    <<58, 32, 34, 39, 34, 44, 32, 32, 32, 32, 32, 32, 32, 32, 32, 32, 35, 32,
      83, 109, 97, 114, 116, 32, 97, 112, 111, 115, 116, 114, 111, 112, 104,
      101, 32, 108, 101, 102, 116, 10, 32, 32, 32, 32>>

\* CLEANABLE_CHARS as Python evaluates the literal, in insertion order.  The
\* keys of lines 18 and 19 are both the ASCII quotation mark U+0022 (one
\* entry, mapped to itself); no key is U+201C, U+201D, U+2018 or U+2019.
CLEANABLE_CHARS ==
    << <<(<<8482>>), (<<>>)>>,            \* trademark
       <<(<<174>>), (<<>>)>>,             \* registered
       <<(<<169>>), (<<>>)>>,             \* copyright
       <<(<<34>>), (<<34>>)>>,            \* '"' -> '"'
       <<TripleQuotedKey, (<<39>>)>>,
       <<(<<8211>>), (<<45>>)>>,          \* en dash
       <<(<<8212>>), (<<45>>)>>,          \* em dash
       <<(<<8230>>), (<<46, 46, 46>>)>>,  \* ellipsis
       <<(<<8203>>), (<<>>)>>,            \* zero-width space
       <<(<<65279>>), (<<>>)>>,           \* BOM
       <<(<<95>>), (<<32>>)>> >>          \* underscore

-----------------------------------------------------------------------------
(* CHARACTERS THAT CANNOT BE CLEANED *)

\* A pattern is a character class: a set of code point ranges <<lo, hi>>.
UNCLENABLE_PATTERNS ==
    << [type |-> "null_char",
        pattern |-> {<<0, 0>>},
        description |-> "NULL character - Binary data corruption",
        example |-> "\\x00"],
       [type |-> "control_chars",
        pattern |-> {<<1, 8>>, <<11, 11>>, <<12, 12>>, <<14, 31>>},
        description |-> "Control characters - Mainframe/Legacy system artifacts",
        example |-> "\\x01-\\x1F"],
       [type |-> "escape_char",
        pattern |-> {<<27, 27>>},
        description |-> "Escape character - Terminal sequences",
        example |-> "\\x1B"],
       [type |-> "ebcdic_newline",
        pattern |-> {<<133, 133>>},
        description |-> "EBCDIC Newline - Mainframe data",
        example |-> "\\x85"],
       [type |-> "ebcdic_artifacts",
        pattern |-> {<<141, 141>>, <<143, 143>>, <<144, 144>>, <<157, 157>>},
        description |-> "EBCDIC conversion artifacts - Mainframe migration issue",
        example |-> "\\x8D, \\x8F, etc."],
       [type |-> "replacement_char",
        pattern |-> {<<65533, 65533>>},
        description |-> "Replacement character - Encoding error (data loss)",
        example |-> "U+FFFD"],
       [type |-> "private_use",
        pattern |-> {<<57344, 63743>>},
        description |-> "Private Use Area - Custom/proprietary characters",
        example |-> "Private Unicode"] >>


-----------------------------------------------------------------------------
(* Python built-ins the functions call. *)

\* str.isspace() of one character: what str.split() and str.strip() treat as
\* whitespace.
IsSpace(c) ==
    \/ c \in 9..13
    \/ c \in 28..32
    \/ c \in {133, 160, 5760, 8232, 8233, 8239, 8287, 12288}
    \/ c \in 8192..8202

RECURSIVE Replace(_, _, _)
\* str.replace(old, new) for a non-empty old: the non-overlapping occurrences
\* of old, found left to right, each replaced by new.
Replace(s, old, new) ==
    IF Len(s) < Len(old) THEN s
    ELSE IF SubSeq(s, 1, Len(old)) = old
         THEN new \o Replace(SubSeq(s, Len(old) + 1, Len(s)), old, new)
         ELSE <<Head(s)>> \o Replace(Tail(s), old, new)

RECURSIVE Split(_)
\* str.split() with no separator: the maximal runs of non-whitespace.
Split(s) ==
    IF s = <<>> THEN <<>>
    ELSE IF IsSpace(Head(s)) THEN Split(Tail(s))
    ELSE LET nxt == IF \E i \in 1..Len(s) : IsSpace(s[i])
                    THEN CHOOSE i \in 1..Len(s) :
                             /\ IsSpace(s[i])
                             /\ \A j \in 1..(i - 1) : ~IsSpace(s[j])
                    ELSE Len(s) + 1
         IN  <<SubSeq(s, 1, nxt - 1)>> \o Split(SubSeq(s, nxt, Len(s)))

RECURSIVE Join(_, _)
\* sep.join(words).
Join(sep, words) ==
    IF words = <<>> THEN <<>>
    ELSE IF Len(words) = 1 THEN words[1]
    ELSE words[1] \o sep \o Join(sep, Tail(words))

RECURSIVE Strip(_)
\* str.strip(): leading and trailing whitespace removed.
Strip(s) ==
    IF s = <<>> THEN s
    ELSE IF IsSpace(Head(s)) THEN Strip(Tail(s))
    ELSE IF IsSpace(s[Len(s)]) THEN Strip(SubSeq(s, 1, Len(s) - 1))
    ELSE s

HexDigit(d) == IF d < 10 THEN 48 + d ELSE 87 + d

\* repr() of a one-character str, for the characters an UNCLENABLE pattern
\* can match: C0 and C1 controls print as '\xhh', the unprintable Private Use
\* Area as '\uhhhh', and the printable U+FFFD as itself, each in single quotes.
Repr(c) ==
    IF c < 256
    THEN <<39, 92, 120, HexDigit(c \div 16), HexDigit(c % 16), 39>>
    ELSE IF c = 65533 THEN <<39, c, 39>>
    ELSE <<39, 92, 117, HexDigit(c \div 4096), HexDigit((c \div 256) % 16),
           HexDigit((c \div 16) % 16), HexDigit(c % 16), 39>>

RECURSIVE Digits(_)
\* The decimal digits of a natural.
Digits(n) == IF n < 10 THEN <<48 + n>> ELSE Append(Digits(n \div 10), 48 + (n % 10))

\* str(v) of a cell value: a str is itself, NaN prints "nan", an int64 prints
\* its digits and a whole float64 its digits and ".0".
StrOf(v) ==
    IF v.kind = "str" THEN v.s
    ELSE IF v.kind = "nan" THEN <<110, 97, 110>>
    ELSE IF v.kind = "int" THEN Digits(v.n)
    ELSE Digits(v.n) \o <<46, 48>>

\* pd.isna(v) or v is None.
IsNa(v) == v.kind = "nan"

-----------------------------------------------------------------------------
(* clean_text *)

RECURSIVE ReplaceAll(_, _)
\* The loop of lines 83-84: the first k entries of CLEANABLE_CHARS applied in
\* order.
ReplaceAll(s, k) ==
    IF k = 0 THEN s
    ELSE Replace(ReplaceAll(s, k - 1), CLEANABLE_CHARS[k][1], CLEANABLE_CHARS[k][2])

clean_text(v) ==
    IF IsNa(v) THEN <<>>
    ELSE Strip(Join(<<32>>, Split(ReplaceAll(StrOf(v), Len(CLEANABLE_CHARS)))))

-----------------------------------------------------------------------------
(* detect_unclenable_chars *)

\* Whether the character class matches the character.
Matches(pattern, c) == \E r \in pattern : r[1] <= c /\ c <= r[2]

\* Findall with the bug of stopping at the first match.
FindallFirst(pattern, s) == Take(SelectSeq(s, LAMBDA c : Matches(pattern, c)), 1)

\* re.findall(pattern, s) for a pattern that matches one character: the
\* matched characters, left to right.
Findall(pattern, s) == SelectSeq(s, LAMBDA c : Matches(pattern, c))

\* How many matches an issue quotes (matches[:3]).
SampleLimit == 3

\* The dict appended for one pattern with at least one match.
IssueOf(config, matches) ==
    [type |-> config.type,
     description |-> config.description,
     example |-> config.example,
     count |-> Len(matches),
     found_chars |-> [i \in 1..Min2(Len(matches), SampleLimit) |-> Repr(matches[i])]]

RECURSIVE DetectFrom(_, _)
\* The loop of lines 103-112 over the first k patterns.
DetectFrom(s, k) ==
    IF k = 0 THEN <<>>
    ELSE LET config == UNCLENABLE_PATTERNS[k]
             matches == Findall(config.pattern, s)
             before == DetectFrom(s, k - 1)
         IN  IF matches # <<>> THEN Append(before, IssueOf(config, matches))
             ELSE before

detect_unclenable_chars(v) ==
    IF IsNa(v) THEN <<>>
    ELSE DetectFrom(StrOf(v), Len(UNCLENABLE_PATTERNS))

has_unclenable_chars(v) == Len(detect_unclenable_chars(v)) > 0

-----------------------------------------------------------------------------
(* pd.read_csv, as far as the handler depends on it. *)

\* A field that parses as a number (here: a run of decimal digits).
IsNumeric(raw) == raw # <<>> /\ \A i \in 1..Len(raw) : raw[i] \in 48..57

RECURSIVE ParseNat(_)
ParseNat(raw) ==
    IF raw = <<>> THEN 0
    ELSE 10 * ParseNat(SubSeq(raw, 1, Len(raw) - 1)) + (raw[Len(raw)] - 48)

\* The dtype read_csv infers for a column from its raw fields, and the
\* column's values: no rows give object; only empty fields give float64 NaN;
\* numbers give int64, or float64 when a field is empty; anything else gives
\* object, with the fields as str and the empty ones as NaN.
TypeColumn(raws) ==
    LET n == Len(raws)
        allEmpty == \A i \in 1..n : raws[i] = <<>>
        someEmpty == \E i \in 1..n : raws[i] = <<>>
        allNumeric == \A i \in 1..n : raws[i] = <<>> \/ IsNumeric(raws[i])
    IN  IF n = 0 THEN [dtype |-> "object", values |-> <<>>]
        ELSE IF allEmpty THEN [dtype |-> "float64", values |-> [i \in 1..n |-> NaN]]
        ELSE IF allNumeric /\ someEmpty
        THEN [dtype |-> "float64",
              values |-> [i \in 1..n |-> IF raws[i] = <<>> THEN NaN
                                         ELSE FloatVal(ParseNat(raws[i]))]]
        ELSE IF allNumeric
        THEN [dtype |-> "int64", values |-> [i \in 1..n |-> IntVal(ParseNat(raws[i]))]]
        ELSE [dtype |-> "object",
              values |-> [i \in 1..n |-> IF raws[i] = <<>> THEN NaN ELSE Str(raws[i])]]

\* Field j of a line; a short line is padded with missing fields.
FieldOf(line, j) == IF j <= Len(line) THEN line[j] ELSE <<>>

\* pd.read_csv(io.BytesIO(file_content)) of a CSV text given as its header
\* names and the fields of its data lines.  No header raises EmptyDataError.
\* The first data line fixes the field count; a later line with more fields
\* raises ParserError.  A first data line with one field more than the
\* header has names makes the first field of every line the row label
\* (pandas' implicit index, as for lines that end in a delimiter); otherwise
\* the rows are labelled 0, 1, 2, ...
ReadCsv(content) ==
    LET header == content.header
        lines == content.lines
        n == Len(lines)
        lead == IF n > 0 /\ Len(lines[1]) = Len(header) + 1 THEN 1 ELSE 0
        col(j) == TypeColumn([i \in 1..n |-> FieldOf(lines[i], j + lead)])
        colNo(c) == CHOOSE j \in 1..Len(header) : header[j] = c
        names == {header[j] : j \in 1..Len(header)}
    IN  IF header = <<>> THEN [ok |-> FALSE, error |-> "No columns to parse from file"]
        ELSE IF \E i \in 1..n : Len(lines[i]) > Len(header) + lead
        THEN [ok |-> FALSE, error |-> "Error tokenizing data"]
        ELSE [ok |-> TRUE,
              df |-> [index |-> IF lead = 1
                                THEN TypeColumn([i \in 1..n |-> lines[i][1]]).values
                                ELSE [i \in 1..n |-> IntVal(i - 1)],
                      pos |-> [i \in 1..n |-> i],
                      columns |-> header,
                      dtypes |-> [c \in names |-> col(colNo(c)).dtype],
                      data |-> [i \in 1..n |->
                                   [c \in names |-> col(colNo(c)).values[i]]]]]

\* pd.DataFrame(): no rows, no columns.
EmptyDataFrame ==
    [index |-> <<>>, pos |-> <<>>, columns |-> <<>>,
     dtypes |-> [c \in {} |-> "object"], data |-> <<>>]

\* The positions of a frame's rows, in order.
RowPositions(frame) == [i \in 1..Len(frame.index) |-> i]

\* The rows of df at the positions ps, in that order.
RowsAt(frame, ps) ==
    [index |-> [k \in 1..Len(ps) |-> frame.index[ps[k]]],
     pos |-> [k \in 1..Len(ps) |-> frame.pos[ps[k]]],
     columns |-> frame.columns,
     dtypes |-> frame.dtypes,
     data |-> [k \in 1..Len(ps) |-> frame.data[ps[k]]]]

\* df.drop(labels): every row whose label is among the labels is removed.
Drop(frame, labels) ==
    RowsAt(frame, SelectSeq(RowPositions(frame),
                            LAMBDA i : \A k \in 1..Len(labels) : frame.index[i] # labels[k]))

RECURSIVE LocPositions(_, _, _)
\* The positions df.loc[labels] selects, for the first k labels: for each
\* label in turn, every row that carries it.
LocPositions(frame, labels, k) ==
    IF k = 0 THEN <<>>
    ELSE LocPositions(frame, labels, k - 1)
         \o SelectSeq(RowPositions(frame), LAMBDA i : frame.index[i] = labels[k])

\* df.loc[labels].
Loc(frame, labels) == RowsAt(frame, LocPositions(frame, labels, Len(labels)))

\* The row that df.iterrows() yields for position i: a Series of the row's
\* values in the frame's common dtype, so that in a frame of int64 and
\* float64 columns alone the integers arrive as floats.
RowSeries(frame, i) ==
    LET kinds == {frame.dtypes[c] : c \in DOMAIN frame.dtypes}
        upcast == "object" \notin kinds /\ "float64" \in kinds
    IN  [c \in DOMAIN frame.dtypes |->
            LET v == frame.data[i][c]
            IN  IF upcast /\ v.kind = "int" THEN FloatVal(v.n) ELSE v]

\* int(idx): a number converts, a str converts when it is a run of digits,
\* anything else raises ValueError.
IntOf(idx) ==
    IF idx.kind \in {"int", "float"} THEN [ok |-> TRUE, n |-> idx.n]
    ELSE IF idx.kind = "str" /\ IsNumeric(idx.s) THEN [ok |-> TRUE, n |-> ParseNat(idx.s)]
    ELSE [ok |-> FALSE, n |-> 0]

-----------------------------------------------------------------------------
(* process_dataframe *)

\* How much of a value a problem quotes (str(value)[:100]).
ValueLimit == 100

\* How much of each value row_data quotes (str(v)[:50]).
RowDataLimit == 50

\* row_number is int(idx) + 2: the header line and the 0-based index.
RowNumberOffset == 2

\* Lines 138-147: the problems of one row, one for each column, in column
\* order, whose value is a non-missing str with at least one issue.
RowIssues(frame, i) ==
    LET row == RowSeries(frame, i)
        bad == SelectSeq(frame.columns,
                         LAMBDA c : /\ ~IsNa(row[c])
                                    /\ row[c].kind = "str"
                                    /\ detect_unclenable_chars(row[c]) # <<>>)
    IN  [k \in 1..Len(bad) |->
            [column |-> bad[k],
             value |-> Take(StrOf(row[bad[k]]), ValueLimit),
             issues |-> detect_unclenable_chars(row[bad[k]])]]

RECURSIVE ScanRows(_, _)
\* Lines 135-155 over the first k rows: the labels and the details of the
\* dirty rows, or the exception int(idx) raised.
ScanRows(frame, k) ==
    IF k = 0
    THEN [raised |-> FALSE, error |-> "", dirty_row_indices |-> <<>>,
          dirty_row_details |-> <<>>]
    ELSE LET before == ScanRows(frame, k - 1)
             row_issues == RowIssues(frame, k)
             idx == frame.index[k]
             row == RowSeries(frame, k)
         IN  IF before.raised \/ row_issues = <<>> THEN before
             ELSE IF ~IntOf(idx).ok
             THEN [before EXCEPT !.raised = TRUE,
                                 !.error = "invalid literal for int() with base 10"]
             ELSE [before EXCEPT
                     !.dirty_row_indices = Append(@, idx),
                     !.dirty_row_details =
                         Append(@, [row_number |-> IntOf(idx).n + RowNumberOffset,
                                    row_data |-> [c \in DOMAIN row |->
                                                     Take(StrOf(row[c]), RowDataLimit)],
                                    problems |-> row_issues])]

\* Line 158: df.drop(dirty_row_indices).copy().
CleanFrame(frame, dirty_row_indices) == Drop(frame, dirty_row_indices)

\* Line 159: the rows selected by label, or an empty frame when no row is dirty.
DirtyFrame(frame, dirty_row_indices) ==
    IF dirty_row_indices # <<>> THEN Loc(frame, dirty_row_indices) ELSE EmptyDataFrame

\* Lines 162-164: clean_text applied to every value of every object column.
CleanColumns(frame) ==
    [frame EXCEPT !.data =
        [i \in 1..Len(frame.data) |->
            [c \in DOMAIN frame.dtypes |->
                IF frame.dtypes[c] = "object"
                THEN Str(clean_text(frame.data[i][c]))
                ELSE frame.data[i][c]]]]

\* ColumnHasIssues with the bug of asking whether the value's row is dirty.
ColumnHasIssuesByRow(frame, c) ==
    \E i \in 1..Len(frame.data) :
        /\ ~IsNa(frame.data[i][c])
        /\ RowIssues(frame, i) # <<>>

\* Lines 170-173: whether any non-missing value of the column, as text, has
\* an issue.
ColumnHasIssues(frame, c) ==
    \E i \in 1..Len(frame.data) :
        /\ ~IsNa(frame.data[i][c])
        /\ has_unclenable_chars(Str(StrOf(frame.data[i][c])))

\* ColumnAnalysis with an entry for every column, whatever its dtype.
ColumnAnalysisAllColumns(frame) ==
    [c \in DOMAIN frame.dtypes |->
        [type |-> IF frame.dtypes[c] = "object" THEN "string" ELSE frame.dtypes[c],
         had_unclenable_chars |-> ColumnHasIssues(frame, c)]]

\* Lines 167-177: an entry for each object column.
ColumnAnalysis(frame) ==
    [c \in {d \in DOMAIN frame.dtypes : frame.dtypes[d] = "object"} |->
        [type |-> "string", had_unclenable_chars |-> ColumnHasIssues(frame, c)]]

\* process_dataframe with the bug of cleaning the table before it is split.
process_dataframe_clean_first(frame) ==
    LET scan == ScanRows(frame, Len(frame.data))
    IN  IF scan.raised
        THEN [raised |-> TRUE, error |-> scan.error]
        ELSE [raised |-> FALSE,
              clean_df |-> CleanFrame(CleanColumns(frame), scan.dirty_row_indices),
              dirty_df |-> DirtyFrame(CleanColumns(frame), scan.dirty_row_indices),
              dirty_row_details |-> scan.dirty_row_details,
              column_analysis |-> ColumnAnalysis(frame)]

process_dataframe(frame) ==
    LET scan == ScanRows(frame, Len(frame.data))
    IN  IF scan.raised
        THEN [raised |-> TRUE, error |-> scan.error]
        ELSE [raised |-> FALSE,
              clean_df |-> CleanColumns(CleanFrame(frame, scan.dirty_row_indices)),
              dirty_df |-> DirtyFrame(frame, scan.dirty_row_indices),
              dirty_row_details |-> scan.dirty_row_details,
              column_analysis |-> ColumnAnalysis(frame)]

-----------------------------------------------------------------------------
(* CleanDataFunction *)

\* Lines 261-270: what every exception is answered with.
ErrorResponse(message) ==
    [status |-> "ERROR", error |-> message, status_code |-> 500]

\* clean_df.to_csv(index=False): the header and the rows, without the labels.
ToCsv(frame) == [header |-> frame.columns, rows |-> frame.data]

\* Lines 230-259.
SuccessResponse(original_row_count, result) ==
    [status |-> "SUCCESS",
     originalRowCount |-> original_row_count,
     cleanRowCount |-> Len(result.clean_df.data),
     dirtyRowCount |-> Len(result.dirty_df.data),
     hasDirtyRows |-> Len(result.dirty_df.data) > 0,
     cleanData |-> ToCsv(result.clean_df),
     dirtyRowDetails |-> result.dirty_row_details,
     columnAnalysis |-> result.column_analysis,
     status_code |-> 200]

\* Lines 209-225: the body is read as JSON, the content decoded and parsed.
\* Each step may raise; the except clause answers.
ReadInput ==
    /\ pc = "start"
    /\ \E parsed \in {ReadCsv(req)} :
           IF req.kind = "bad_json"
           THEN /\ response' = ErrorResponse("HTTP request does not contain valid JSON data")
                /\ pc' = "done"
                /\ df' = df
           ELSE IF req.kind = "bad_base64"
           THEN /\ response' = ErrorResponse("Incorrect padding")
                /\ pc' = "done"
                /\ df' = df
           ELSE IF ~parsed.ok
           THEN /\ response' = ErrorResponse(parsed.error)
                /\ pc' = "done"
                /\ df' = df
           ELSE /\ df' = parsed.df
                /\ pc' = "parsed"
                /\ response' = response
    /\ UNCHANGED <<text, cleaned, issues, req, clean_df, dirty_df,
                   dirty_row_details, column_analysis>>

\* Lines 227-259: the table is processed and the response built; an
\* exception of process_dataframe is answered by the same except clause.
Process ==
    /\ pc = "parsed"
    /\ pc' = "done"
    /\ \E result \in {process_dataframe(df)} :
           IF result.raised
           THEN /\ response' = ErrorResponse(result.error)
                /\ UNCHANGED <<clean_df, dirty_df, dirty_row_details, column_analysis>>
           ELSE /\ clean_df' = result.clean_df
                /\ dirty_df' = result.dirty_df
                /\ dirty_row_details' = result.dirty_row_details
                /\ column_analysis' = result.column_analysis
                /\ response' = SuccessResponse(Len(df.data), result)
    /\ UNCHANGED <<text, cleaned, issues, req, df>>

-----------------------------------------------------------------------------
(* The requests of the model. *)

\* The raw fields of the model's CSVs: a missing value, the number 7, a text
\* with a cleanable character alone ("x_"), and a text with a NUL and a
\* cleanable character ("\x00_").
RawFields == {<<>>, <<55>>, <<120, 95>>, <<0, 95>>}

\* The leading field of a line that has one: "5" and "k".
LabelFields == {<<53>>, <<107>>}

Header == <<"a", "b">>

PlainLines == {<<x, y>> : x \in RawFields, y \in RawFields}

LabelledLines == {<<l, x, y>> : l \in LabelFields, x \in RawFields, y \in RawFields}

Csv(header, lines) == [kind |-> "csv", header |-> header, lines |-> lines]

\* A body that is no JSON, a content that is no base64, an empty file, and a
\* file whose second line is longer than its first.
MalformedRequests ==
    {[kind |-> "bad_json", header |-> <<>>, lines |-> <<>>],
     [kind |-> "bad_base64", header |-> <<>>, lines |-> <<>>],
     Csv(<<>>, <<>>),
     Csv(Header, << <<(<<55>>), (<<55>>)>>, <<(<<55>>), (<<55>>), (<<55>>)>> >>)}

\* The request is malformed, or a CSV of at most MaxRows lines, all with as
\* many fields as the header or all with one more.
Init ==
    /\ pc = "start"
    /\ \/ req \in MalformedRequests
       \/ \E k \in 0..MaxRows : \E lines \in [1..k -> PlainLines] :
             req = Csv(Header, lines)
       \/ \E k \in 1..MaxRows : \E lines \in [1..k -> LabelledLines] :
             req = Csv(Header, lines)
    /\ text = Unset
    /\ cleaned = Unset
    /\ issues = Unset
    /\ df = Unset
    /\ clean_df = Unset
    /\ dirty_df = Unset
    /\ dirty_row_details = Unset
    /\ column_analysis = Unset
    /\ response = Unset

\* The handler: its input is read, then processed and answered.
CleanDataFunction == ReadInput \/ Process

Next == CleanDataFunction

Spec == Init /\ [][Next]_vars

-----------------------------------------------------------------------------
(* The cell-level functions on their own. *)

\* NUL, the control character \x01, ESC, space, '"', '_', 'a', the EBCDIC
\* newline \x85 (whitespace to str.split), the left smart quote U+201C, the
\* ellipsis and the Private Use Area's U+E001.
TextAlphabet == {0, 1, 27, 32, 34, 95, 97, 133, 8220, 8230, 57345}

\* A missing value and every text of at most MaxLen characters.
Texts == {NaN} \cup {Str(s) : s \in SeqsUpTo(TextAlphabet, MaxLen)}

InitText ==
    /\ pc = "text"
    /\ text \in Texts
    /\ cleaned = Unset
    /\ issues = Unset
    /\ req = Unset
    /\ df = Unset
    /\ clean_df = Unset
    /\ dirty_df = Unset
    /\ dirty_row_details = Unset
    /\ column_analysis = Unset
    /\ response = Unset

\* cleaned = clean_text(text)
CleanText ==
    /\ pc = "text"
    /\ cleaned' = clean_text(text)
    /\ pc' = "cleaned"
    /\ UNCHANGED <<text, issues, req, df, clean_df, dirty_df, dirty_row_details,
                   column_analysis, response>>

\* clean_text applied to its own result.
CleanAgain ==
    /\ pc = "cleaned"
    /\ text' = Str(cleaned)
    /\ cleaned' = clean_text(Str(cleaned))
    /\ pc' = "recleaned"
    /\ UNCHANGED <<issues, req, df, clean_df, dirty_df, dirty_row_details,
                   column_analysis, response>>

\* issues = detect_unclenable_chars(text)
DetectUnclenableChars ==
    /\ pc = "text"
    /\ issues' = detect_unclenable_chars(text)
    /\ pc' = "detected"
    /\ UNCHANGED <<text, cleaned, req, df, clean_df, dirty_df, dirty_row_details,
                   column_analysis, response>>

NextText == CleanText \/ CleanAgain \/ DetectUnclenableChars

SpecText == InitText /\ [][NextText]_vars

-----------------------------------------------------------------------------
(* The character taxonomy as the specification states it, for the claims. *)

\* The replacement the specification gives each cleanable character.
SpecReplacement(c) ==
    IF c \in {8482, 174, 169, 8203, 65279} THEN <<>>
    ELSE IF c \in {8220, 8221} THEN <<34>>
    ELSE IF c \in {8216, 8217} THEN <<39>>
    ELSE IF c \in {8211, 8212} THEN <<45>>
    ELSE IF c = 8230 THEN <<46, 46, 46>>
    ELSE IF c = 95 THEN <<32>>
    ELSE <<c>>

\* The characters the specification calls cleanable.
SpecCleanable == {8482, 174, 169, 8220, 8221, 8216, 8217, 8211, 8212, 8230,
                  8203, 65279, 95}

RECURSIVE SpecSubstitute(_)
SpecSubstitute(s) ==
    IF s = <<>> THEN <<>> ELSE SpecReplacement(Head(s)) \o SpecSubstitute(Tail(s))

RECURSIVE SpecCollapse(_, _)
\* Every run of whitespace becomes one space, and none leads or trails;
\* pending says that whitespace was seen after the last character kept.
SpecCollapse(s, pending) ==
    IF s = <<>> THEN <<>>
    ELSE IF IsSpace(Head(s)) THEN SpecCollapse(Tail(s), TRUE)
    ELSE (IF pending THEN <<32>> ELSE <<>>) \o <<Head(s)>> \o SpecCollapse(Tail(s), FALSE)

RECURSIVE SpecTrimLeft(_)
SpecTrimLeft(s) ==
    IF s # <<>> /\ IsSpace(Head(s)) THEN SpecTrimLeft(Tail(s)) ELSE s

\* normalize as the specification describes it.
SpecNormalize(v) ==
    IF v.kind = "nan" THEN <<>>
    ELSE SpecCollapse(SpecTrimLeft(SpecSubstitute(v.s)), FALSE)

\* The names of the seven uncleanable rules, in declaration order.
SpecRuleNames ==
    <<"null_char", "control_chars", "escape_char", "ebcdic_newline",
      "ebcdic_artifacts", "replacement_char", "private_use">>

\* Whether the named rule matches the character.
SpecRuleMatches(name, c) ==
    CASE name = "null_char" -> c = 0
      [] name = "control_chars" -> c \in (1..8) \cup {11, 12} \cup (14..31)
      [] name = "escape_char" -> c = 27
      [] name = "ebcdic_newline" -> c = 133
      [] name = "ebcdic_artifacts" -> c \in {141, 143, 144, 157}
      [] name = "replacement_char" -> c = 65533
      [] name = "private_use" -> c \in 57344..63743

\* Whether some uncleanable rule matches some character of the text.
SpecUncleanable(s) ==
    \E i \in 1..Len(s) : \E k \in 1..Len(SpecRuleNames) : SpecRuleMatches(SpecRuleNames[k], s[i])

\* The characters of the text the named rule matches, in order.
SpecMatched(name, s) == SelectSeq(s, LAMBDA c : SpecRuleMatches(name, c))

-----------------------------------------------------------------------------
(* Claims about the cell-level functions, under SpecText. *)

\* C4: clean_text returns the value with every cleanable character replaced
\* as the specification lists them (the smart quotes and apostrophes among
\* them), whitespace runs collapsed and the ends trimmed; a missing value
\* gives the empty string.
C4_NormalizeAsSpecified ==
    pc = "cleaned" => cleaned = SpecNormalize(text)

\* clean_text agrees with the specification on every text without a smart
\* quote or apostrophe (what remains of C4 in the code).
C4_ExceptSmartQuotes ==
    (pc = "cleaned" /\ \A i \in 1..Len(text.s) : text.s[i] \notin {8220, 8221, 8216, 8217})
        => cleaned = SpecNormalize(text)

\* clean_text applied to its own result returns it unchanged.
Idempotent ==
    pc = "recleaned" => cleaned = text.s

\* C5: clean_text is idempotent, that is, its output holds no cleanable source
\* character, no whitespace but single spaces between other characters, and
\* no leading or trailing whitespace.
C5_IdempotentNormalForm ==
    /\ Idempotent
    /\ pc = "cleaned" =>
          /\ \A i \in 1..Len(cleaned) : cleaned[i] \notin SpecCleanable
          /\ \A i \in 1..Len(cleaned) :
                IsSpace(cleaned[i]) =>
                    /\ cleaned[i] = 32
                    /\ 1 < i /\ i < Len(cleaned)
                    /\ ~IsSpace(cleaned[i + 1])

\* C10: detect_unclenable_chars returns, in declaration order, exactly one
\* issue for each rule that matches at least once; its count is the number
\* of characters of the value the rule matches and its samples are the first
\* min(count, 3) matches; every rule sees the whole value, so that ESC counts
\* for control_chars and for escape_char; a missing value gives no issue.
C10_IssuesPerRule ==
    pc = "detected" =>
        IF text.kind = "nan" THEN issues = <<>>
        ELSE LET hit == SelectSeq(SpecRuleNames,
                                  LAMBDA r : SpecMatched(r, text.s) # <<>>)
             IN  /\ Len(issues) = Len(hit)
                 /\ \A k \in 1..Len(hit) :
                       LET m == SpecMatched(hit[k], text.s)
                           shown == IF Len(m) < 3 THEN Len(m) ELSE 3
                       IN  /\ issues[k].type = hit[k]
                           /\ issues[k].count = Len(m)
                           /\ Len(issues[k].found_chars) = shown
                           /\ \A j \in 1..shown : issues[k].found_chars[j] = Repr(m[j])

\* A value of four ESC characters was analysed: two issues of count 4, each
\* with three samples.
C10_Witness ==
    /\ pc = "detected"
    /\ text = Str(<<27, 27, 27, 27>>)
    /\ Len(issues) = 2
    /\ issues[1].type = "control_chars" /\ issues[1].count = 4
    /\ issues[2].type = "escape_char" /\ issues[2].count = 4
    /\ Len(issues[2].found_chars) = 3

-----------------------------------------------------------------------------
(* Claims about process_dataframe and the handler, under Spec. *)

\* The handler answered with a result.
Succeeded == pc = "done" /\ response.status = "SUCCESS"

\* The labels of a frame's rows.
LabelSet(frame) == {frame.index[i] : i \in 1..Len(frame.index)}

\* Row p of the parsed table is a row of the frame.
InTable(frame, p) == \E k \in 1..Len(frame.pos) : frame.pos[k] = p

\* Row p of the parsed table has a textual cell with an uncleanable character.
RowHasUncleanable(p) ==
    \E c \in DOMAIN df.data[p] :
        df.data[p][c].kind = "str" /\ SpecUncleanable(df.data[p][c].s)

\* Some RowProblem carries the display number of row p.
HasProblemEntry(p) ==
    \E k \in 1..Len(dirty_row_details) :
        dirty_row_details[k].row_number = IntOf(df.index[p]).n + RowNumberOffset

\* The rows are labelled 0, 1, 2, ...: the CSV had no leading field.
RangeIndexed == \A i \in 1..Len(df.index) : df.index[i] = IntVal(i - 1)

\* C1: every original row, keyed by its index, is in exactly one of the clean
\* and the dirty table: the index sets are disjoint, their union is the set
\* of original indices, and cleanRowCount + dirtyRowCount = originalRowCount.
C1_StrictPartition ==
    Succeeded =>
        /\ LabelSet(clean_df) \cap LabelSet(dirty_df) = {}
        /\ LabelSet(clean_df) \cup LabelSet(dirty_df) = LabelSet(df)
        /\ response.cleanRowCount + response.dirtyRowCount = response.originalRowCount
        /\ \A p \in 1..Len(df.data) :
              Cardinality({k \in 1..Len(clean_df.pos) : clean_df.pos[k] = p})
              + Cardinality({k \in 1..Len(dirty_df.pos) : dirty_df.pos[k] = p}) = 1

\* C1 for the tables whose rows are labelled 0, 1, 2, ...
C1_WhenRangeIndexed == (Succeeded /\ RangeIndexed) => C1_StrictPartition

\* C2: a row is dirty (in the dirty table, with a RowProblem) exactly when a
\* textual cell of it has an uncleanable character, and clean otherwise; a
\* cell with exactly one NUL is reported with a null_char issue of count 1.
C2_DirtyIffUncleanable ==
    Succeeded =>
        \A p \in 1..Len(df.data) :
            /\ RowHasUncleanable(p) <=> (InTable(dirty_df, p) /\ HasProblemEntry(p))
            /\ ~RowHasUncleanable(p) => (InTable(clean_df, p) /\ ~InTable(dirty_df, p))
            /\ \A c \in DOMAIN df.data[p] :
                  LET v == df.data[p][c]
                  IN  (v.kind = "str" /\ Len(SelectSeq(v.s, LAMBDA x : x = 0)) = 1) =>
                          \E k \in 1..Len(dirty_row_details) :
                              \E j \in 1..Len(dirty_row_details[k].problems) :
                                  LET pr == dirty_row_details[k].problems[j]
                                  IN  /\ pr.column = c
                                      /\ pr.value = v.s
                                      /\ \E i \in 1..Len(pr.issues) :
                                            /\ pr.issues[i].type = "null_char"
                                            /\ pr.issues[i].count = 1

\* C2 for the tables whose rows are labelled 0, 1, 2, ...
C2_WhenRangeIndexed == (Succeeded /\ RangeIndexed) => C2_DirtyIffUncleanable

\* C3: every textual cell of every clean-table row is clean_text of the
\* original cell, every other cell of the clean table is the original cell,
\* and every cell of every dirty-table row is the original cell.
C3_NormalizeCleanRowsOnly ==
    Succeeded =>
        /\ \A k \in 1..Len(clean_df.data) :
              \A c \in DOMAIN df.dtypes :
                  clean_df.data[k][c] =
                      IF df.dtypes[c] = "object"
                      THEN Str(clean_text(df.data[clean_df.pos[k]][c]))
                      ELSE df.data[clean_df.pos[k]][c]
        /\ \A k \in 1..Len(dirty_df.data) :
              dirty_df.data[k] = df.data[dirty_df.pos[k]]

\* A table with a clean row that normalization changed ("x_" became "x") and
\* a dirty row that keeps its cleanable character ("\x00_").
C3_Witness ==
    /\ Succeeded
    /\ \E k \in 1..Len(clean_df.data) :
          /\ df.data[clean_df.pos[k]]["a"] = Str(<<120, 95>>)
          /\ clean_df.data[k]["a"] = Str(<<120>>)
    /\ \E k \in 1..Len(dirty_df.data) : dirty_df.data[k]["a"] = Str(<<0, 95>>)

\* C6: for every textual column, had_unclenable_chars is true exactly when a
\* non-missing value of the column has an uncleanable character, which is
\* exactly when some RowProblem lists the column.
C6_ColumnFlag ==
    Succeeded =>
        \A c \in DOMAIN df.dtypes :
            df.dtypes[c] = "object" =>
                /\ c \in DOMAIN column_analysis
                /\ column_analysis[c].had_unclenable_chars =
                       (\E p \in 1..Len(df.data) :
                           /\ df.data[p][c].kind = "str"
                           /\ SpecUncleanable(df.data[p][c].s))
                /\ column_analysis[c].had_unclenable_chars =
                       (\E k \in 1..Len(dirty_row_details) :
                           \E j \in 1..Len(dirty_row_details[k].problems) :
                               dirty_row_details[k].problems[j].column = c)

\* Two textual columns, one row dirty through column a alone: a is flagged
\* and b is not, although b has a value in the dirty row.
C6_Witness ==
    /\ Succeeded
    /\ Len(df.data) = 2
    /\ df.data[1]["a"] = Str(<<0, 95>>)
    /\ df.data[1]["b"] = Str(<<120, 95>>)
    /\ column_analysis["a"].had_unclenable_chars
    /\ ~column_analysis["b"].had_unclenable_chars

\* C7: the column report has an entry for every column of the input table:
\* "string" with the flag for a textual column, a "not applicable" marker
\* for any other.
C7_EveryColumnReported ==
    Succeeded =>
        /\ DOMAIN column_analysis = DOMAIN df.dtypes
        /\ \A c \in DOMAIN df.dtypes :
              (df.dtypes[c] = "object") <=> (column_analysis[c].type = "string")

\* C7 as amended: the column report has an entry, of type "string" and with
\* the flag, for exactly the textual (object) columns; every other column is
\* omitted.
C7_TextualColumnsReported ==
    Succeeded =>
        /\ DOMAIN column_analysis = {c \in DOMAIN df.dtypes : df.dtypes[c] = "object"}
        /\ \A c \in DOMAIN column_analysis :
              /\ column_analysis[c].type = "string"
              /\ column_analysis[c].had_unclenable_chars \in BOOLEAN
        /\ response.columnAnalysis = column_analysis

\* A table with the textual column a and the numeric column b: the report
\* has an entry for a alone.
C7_Witness ==
    /\ Succeeded
    /\ df.dtypes["a"] = "object"
    /\ df.dtypes["b"] = "int64"
    /\ Len(df.data) > 0
    /\ DOMAIN column_analysis = {"a"}

\* What tells one kind of response from another: its status and HTTP code.
Signal(r) == <<r.status, r.status_code>>

\* The input could not be read as a table.
InputFailed == pc = "done" /\ df = Unset

\* The table was read and processing it raised.
ProcessingFailed == pc = "done" /\ df # Unset /\ response.status = "ERROR"

\* C8: an input that cannot be decoded or parsed fails before any row is
\* classified, with no partial result and with a signal that differs from a
\* processing error's; an input whose rows are all dirty succeeds, with
\* cleanRowCount 0.
C8_InputErrorDistinct ==
    /\ InputFailed =>
          /\ response.status = "ERROR"
          /\ DOMAIN response = {"status", "error", "status_code"}
          /\ dirty_row_details = Unset /\ clean_df = Unset /\ dirty_df = Unset
    /\ ProcessingFailed => Signal(response) # Signal(ErrorResponse("No columns to parse from file"))
    /\ (pc = "done" /\ df # Unset /\ Len(df.data) > 0
            /\ \A p \in 1..Len(df.data) : RowHasUncleanable(p)) =>
          response.status = "SUCCESS" /\ response.cleanRowCount = 0

\* C8 without the distinct signal, for the tables whose rows are labelled
\* 0, 1, 2, ...
C8_WhenRangeIndexed ==
    /\ InputFailed =>
          /\ response.status = "ERROR"
          /\ DOMAIN response = {"status", "error", "status_code"}
          /\ dirty_row_details = Unset /\ clean_df = Unset /\ dirty_df = Unset
    /\ (pc = "done" /\ df # Unset /\ RangeIndexed /\ Len(df.data) > 0
            /\ \A p \in 1..Len(df.data) : RowHasUncleanable(p)) =>
          response.status = "SUCCESS" /\ response.cleanRowCount = 0

\* Whether a sequence of numbers increases strictly.
Increasing(ps) == \A i \in 1..Len(ps) : \A j \in 1..Len(ps) : i < j => ps[i] < ps[j]

\* C9: the clean table, the dirty table and the RowProblem list keep the
\* original order of the rows; the list has one entry for each dirty-table
\* row, in order, whose row_number is the row's index + 2.
C9_StableOrder ==
    Succeeded =>
        /\ Increasing(clean_df.pos)
        /\ Increasing(dirty_df.pos)
        /\ Len(dirty_row_details) = Len(dirty_df.data)
        /\ \A k \in 1..Len(dirty_row_details) :
              dirty_row_details[k].row_number = IntOf(dirty_df.index[k]).n + RowNumberOffset

\* C9 for the tables whose rows are labelled 0, 1, 2, ...
C9_WhenRangeIndexed == (Succeeded /\ RangeIndexed) => C9_StableOrder

=============================================================================
